---- MODULE Spec2Model ----
(***************************************************************************)
(* A model of the FloydRoseTuner simulation core (src/src/simulation.py)   *)
(* and of its tuning service (src/src/tune_guitar.py).                     *)
(*                                                                         *)
(* Numbers.  The program computes in IEEE double precision.  The model     *)
(* computes in a decimal floating point of Digits significant digits: a    *)
(* number is <<m, e>> and stands for m * 10^e; every operation rounds its  *)
(* result to Digits digits, division by zero yields an infinity or NaN     *)
(* (numpy's float64 behaviour) and comparisons with NaN are false.         *)
(***************************************************************************)
EXTENDS Integers, Sequences, FiniteSets, TLC

\* Significant decimal digits kept by every arithmetic operation.
Digits == 3

RECURSIVE Pow10(_)
Pow10(n) == IF n <= 0 THEN 1 ELSE 10 * Pow10(n - 1)

Limit == Pow10(Digits)

Abs(n) == IF n < 0 THEN 0 - n ELSE n
Sgn(n) == IF n < 0 THEN 0 - 1 ELSE IF n > 0 THEN 1 ELSE 0

\* The three non-finite doubles.
PosInf == <<1, 99>>
NegInf == <<0 - 1, 99>>
NaN == <<0, 99>>

IsNaN(a) == a = NaN
IsInf(a) == a = PosInf \/ a = NegInf
IsFinite(a) == a[2] # 99
IsZero(a) == a = <<0, 0>>

\* Rounding to Digits digits (half away from zero), trailing zeros stripped,
\* so that every finite number has exactly one representation.
RECURSIVE Norm(_, _)
Norm(m, e) ==
    IF m = 0 THEN <<0, 0>>
    ELSE IF Abs(m) >= 10 * Limit THEN Norm(Sgn(m) * (Abs(m) \div 10), e + 1)
    ELSE IF Abs(m) >= Limit THEN Norm(Sgn(m) * ((Abs(m) + 5) \div 10), e + 1)
    ELSE IF m % 10 = 0 THEN Norm(m \div 10, e + 1)
    ELSE <<m, e>>

\* The mantissa scaled up to Digits digits (used before dividing).
RECURSIVE Fill(_, _)
Fill(m, e) == IF m # 0 /\ Abs(m) * 10 < Limit THEN Fill(m * 10, e - 1) ELSE <<m, e>>

Zero == <<0, 0>>
Num(n) == Norm(n, 0)

Neg(a) == <<0 - a[1], a[2]>>

FAdd(a, b) ==
    IF IsNaN(a) \/ IsNaN(b) THEN NaN
    ELSE IF IsInf(a) THEN (IF IsInf(b) /\ a # b THEN NaN ELSE a)
    ELSE IF IsInf(b) THEN b
    ELSE IF IsZero(a) THEN b
    ELSE IF IsZero(b) THEN a
    ELSE IF a[2] >= b[2]
         THEN IF a[2] - b[2] > Digits + 1 THEN a
              ELSE Norm(a[1] * Pow10(a[2] - b[2]) + b[1], b[2])
         ELSE IF b[2] - a[2] > Digits + 1 THEN b
              ELSE Norm(b[1] * Pow10(b[2] - a[2]) + a[1], a[2])

FSub(a, b) == FAdd(a, Neg(b))

FMul(a, b) ==
    IF IsNaN(a) \/ IsNaN(b) THEN NaN
    ELSE IF IsInf(a) \/ IsInf(b)
         THEN IF IsZero(a) \/ IsZero(b) THEN NaN
              ELSE IF Sgn(a[1]) * Sgn(b[1]) > 0 THEN PosInf ELSE NegInf
    ELSE Norm(a[1] * b[1], a[2] + b[2])

\* numpy float64 division: x/0 is +-inf, 0/0 is nan (a RuntimeWarning, no error).
FDiv(a, b) ==
    IF IsNaN(a) \/ IsNaN(b) THEN NaN
    ELSE IF IsInf(a)
         THEN IF IsInf(b) THEN NaN
              ELSE IF Sgn(a[1]) * (IF b[1] < 0 THEN 0 - 1 ELSE 1) > 0 THEN PosInf ELSE NegInf
    ELSE IF IsInf(b) THEN Zero
    ELSE IF IsZero(b)
         THEN IF IsZero(a) THEN NaN ELSE IF a[1] > 0 THEN PosInf ELSE NegInf
    ELSE LET f == Fill(a[1], a[2])
             q == (Abs(f[1]) * Pow10(Digits + 1)) \div Abs(b[1])
         IN  Norm(Sgn(a[1]) * Sgn(b[1]) * q, f[2] - b[2] - (Digits + 1))

\* Comparisons: exact on finite numbers, false whenever a NaN is involved.
FLt(a, b) == LET d == FSub(a, b) IN ~IsNaN(a) /\ ~IsNaN(b) /\ a # b /\ d[1] < 0
FLe(a, b) == ~IsNaN(a) /\ ~IsNaN(b) /\ (a = b \/ FLt(a, b))

\* Integer square root by bisection: the largest r in lo..hi with r*r <= n.
RECURSIVE ISqrtIter(_, _, _)
ISqrtIter(n, lo, hi) ==
    IF lo >= hi THEN lo
    ELSE LET mid == (lo + hi + 1) \div 2
         IN  IF mid * mid <= n THEN ISqrtIter(n, mid, hi) ELSE ISqrtIter(n, lo, mid - 1)

\* The mantissa scaled up (by even powers of ten) before the root is taken.
RECURSIVE SqrtFill(_, _)
SqrtFill(m, e) ==
    IF e % 2 # 0 THEN SqrtFill(m * 10, e - 1)
    ELSE IF m * 100 < 10 * Limit * Limit THEN SqrtFill(m * 100, e - 2)
    ELSE <<m, e>>

\* math.sqrt.  A negative argument raises ValueError in the program; no call
\* site can pass one (line 122 returns first), and the model yields NaN there.
FSqrt(a) ==
    IF IsNaN(a) \/ a = NegInf \/ a[1] < 0 THEN NaN
    ELSE IF a = PosInf THEN PosInf
    ELSE IF IsZero(a) THEN Zero
    ELSE LET f == SqrtFill(a[1], a[2])
         IN  Norm(ISqrtIter(f[1], 0, 46340), f[2] \div 2)

RECURSIVE FSum(_)
FSum(s) == IF s = <<>> THEN Zero ELSE FAdd(FSum(SubSeq(s, 1, Len(s) - 1)), s[Len(s)])

(***************************************************************************)
(* Guitar: the physical model (simulation.py, class Guitar).               *)
(*                                                                         *)
(* A model is a record of the seven parameters, the two derived constants  *)
(* and the flag numpy: TRUE when its scalars are numpy float64 (the model  *)
(* was built from an ndarray), FALSE when they are Python floats (built    *)
(* from lists or literals).  Python's float division raises                *)
(* ZeroDivisionError where numpy's yields inf or nan.                      *)
(***************************************************************************)
Rep6(v) == [i \in 1..6 |-> v]

MAX_PENALTY == Norm(1, 5)

in2m(inches) == FMul(inches, Norm(254, 0 - 4))

Pi == Norm(314159, 0 - 5)

default_measurements ==
    [ scale_length    |-> Rep6(in2m(Norm(255, 0 - 1))),
      r_str           |-> Norm(2, 0 - 2),
      r_spr           |-> Norm(4, 0 - 2),
      E               |-> Norm(2, 11),
      k_spr           |-> FMul(Num(3), Norm(2, 4)),
      string_density  |-> Norm(785, 1),
      balanced_freq   |-> << Norm(32963, 0 - 2), Norm(24694, 0 - 2), Norm(196, 0),
                             Norm(14683, 0 - 2), Norm(110, 0), Norm(8241, 0 - 2) >>,
      diameters       |-> << in2m(Norm(10, 0 - 3)), in2m(Norm(13, 0 - 3)),
                             in2m(Norm(17, 0 - 3)), in2m(Norm(26, 0 - 3)),
                             in2m(Norm(36, 0 - 3)), in2m(Norm(46, 0 - 3)) >> ]

Sq(a) == FMul(a, a)

\* area = pi * (diameter / 2)**2
Area(d) == FMul(Pi, Sq(FDiv(d, Num(2))))

\* The seven parameters, in the order of Guitar.to_list.
measure_to_parameters(m) ==
    LET lin_mass_density == [i \in 1..6 |-> FMul(Area(m.diameters[i]), m.string_density)]
        k_str == [i \in 1..6 |-> FDiv(FMul(m.E, Area(m.diameters[i])), m.scale_length[i])]
        T_str0 == [i \in 1..6 |->
                     FMul(Sq(FMul(FMul(Num(2), m.scale_length[i]), m.balanced_freq[i])),
                          lin_mass_density[i])]
    IN  << m.r_str, m.r_spr, m.k_spr, k_str, T_str0, m.scale_length, lin_mass_density >>

\* arr[lo:hi] of Python (0-based, hi excluded), clipped to the array as slicing is.
Slice(arr, lo, hi) ==
    LET h == IF hi > Len(arr) THEN Len(arr) ELSE hi
    IN  IF lo >= h THEN <<>> ELSE SubSeq(arr, lo + 1, h)

\* reshape with the k_str and T_str0 slots exchanged.
reshapeSwapped(arr) ==
    << arr[1], arr[2], arr[3], Slice(arr, 9, 9 + 6), Slice(arr, 3, 3 + 6),
       Slice(arr, 15, 15 + 6), Slice(arr, 21, 21 + 6) >>

\* Guitar.reshape: the assertion, then the seven slots of the flat vector.
ReshapeOk(arr) == Len(arr) = 27

reshape(arr) ==
    << arr[1], arr[2], arr[3], Slice(arr, 3, 3 + 6), Slice(arr, 9, 9 + 6),
       Slice(arr, 15, 15 + 6), Slice(arr, 21, 21 + 6) >>

\* The arguments of a constructor call: argv are the positional arguments,
\* numpy says whether the numbers passed are numpy float64s.
NoGuitar ==
    [ r_str |-> Zero, r_spr |-> Zero, k_spr |-> Zero, k_str |-> <<>>, T_str0 |-> <<>>,
      scale_length |-> <<>>, lin_mass_density |-> <<>>, T_spr0 |-> Zero,
      k_str_total |-> Zero, numpy |-> FALSE ]

\* Lines 21-26: the parameters the constructor goes on with, or <<>> when
\* Guitar.reshape's assertion failed.
InitParams(a) ==
    IF Len(a.argv) = 0 THEN measure_to_parameters(default_measurements)
    ELSE IF Len(a.argv) = 1
         THEN IF ReshapeOk(a.argv[1]) THEN reshape(a.argv[1]) ELSE <<>>
    ELSE a.argv

\* Line 28 (and line 102 before it): does the constructor raise AssertionError?
InitFails(a) == Len(InitParams(a)) # 7

\* Lines 30-40: the object built.
GuitarInit(a) ==
    LET params == InitParams(a)
    IN  [ r_str |-> params[1], r_spr |-> params[2], k_spr |-> params[3],
          k_str |-> params[4], T_str0 |-> params[5], scale_length |-> params[6],
          lin_mass_density |-> params[7],
          T_spr0 |-> FDiv(FMul(FSum(params[5]), params[1]), params[2]),
          k_str_total |-> FSum(params[4]),
          numpy |-> a.numpy /\ Len(a.argv) # 0 ]

to_list(g) ==
    << g.r_str, g.r_spr, g.k_spr, g.k_str, g.T_str0, g.scale_length, g.lin_mass_density >>

flatten(g) ==
    << g.r_str >> \o << g.r_spr >> \o << g.k_spr >> \o g.k_str \o g.T_str0
       \o g.scale_length \o g.lin_mass_density

\* Every per-string array of the model has the six entries the physics reads.
WellFormed(g) ==
    /\ Len(g.k_str) = 6 /\ Len(g.T_str0) = 6
    /\ Len(g.scale_length) = 6 /\ Len(g.lin_mass_density) = 6

(***************************************************************************)
(* The equilibrium, the frequencies and the two objectives.                *)
(* A string index is 0..5 as in the program; sequences are 1-based, so     *)
(* string i is entry i + 1.                                                *)
(***************************************************************************)

\* Offsets are ndarrays throughout, as the searches hand them on (line 107
\* is then elementwise for list and ndarray fields alike).
\* Line 106: Python float division by a zero r_spr raises ZeroDivisionError;
\* with numpy scalars the same division only warns.
FindEquilibriumRaises(g) == ~g.numpy /\ IsZero(g.r_spr)

find_equilibrium(current_offsets, g) ==
    LET modified_tension ==
            FSum([i \in 1..6 |-> FAdd(g.T_str0[i], FMul(g.k_str[i], current_offsets[i]))])
    IN  FDiv(FSub(FMul(g.r_spr, g.T_spr0), FMul(g.r_str, modified_tension)),
             FAdd(FMul(g.r_spr, g.k_spr), FMul(g.r_str, g.k_str_total)))

\* Lines 119-120, for string i (0-based).
LNew(i, x_eq, g) == FAdd(g.scale_length[i + 1], x_eq)
TNew(i, x_eq, current_offsets, g) ==
    FAdd(g.T_str0[i + 1], FMul(g.k_str[i + 1], FAdd(x_eq, current_offsets[i + 1])))

\* Line 122 without its tension test.
RejectsMassOnly(T_new, mu) == FLt(mu, Zero)

\* Line 122: the test that makes calculate_frequencies return None.
Rejects(T_new, mu) == FLt(T_new, Zero) \/ FLt(mu, Zero)

\* Line 125.
Freq(L_new, T_new, mu) ==
    FMul(FDiv(Num(1), FMul(Num(2), L_new)), FSqrt(FDiv(T_new, mu)))

\* The invalid marker (Python's None).
None == <<>>

\* The loop of lines 118-126 from string i on, calculated_freqs[0..i-1] in acc.
RECURSIVE CalcLoop(_, _, _, _, _)
CalcLoop(i, acc, x_eq, current_offsets, g) ==
    IF i = 6 THEN acc
    ELSE LET T_new == TNew(i, x_eq, current_offsets, g)
             mu == g.lin_mass_density[i + 1]
         IN  IF Rejects(T_new, mu) THEN None
             ELSE CalcLoop(i + 1, Append(acc, Freq(LNew(i, x_eq, g), T_new, mu)),
                           x_eq, current_offsets, g)

calculate_frequencies(x_eq, current_offsets, g) == CalcLoop(0, <<>>, x_eq, current_offsets, g)

\* Lines 133-137, given the frequency vector.
ObjectiveOf(calculated_freqs, target_freq) ==
    IF calculated_freqs = None THEN MAX_PENALTY
    ELSE FSum([i \in 1..6 |-> Sq(FSub(calculated_freqs[i], target_freq[i]))])

objective_function(current_offsets, target_freq, g) ==
    LET x_eq == find_equilibrium(current_offsets, g)
    IN  ObjectiveOf(calculate_frequencies(x_eq, current_offsets, g), target_freq)

\* Lines 161-167, given the frequency vector.
SingleObjectiveOf(calculated_freqs, str_n, target_freq) ==
    IF calculated_freqs = None THEN MAX_PENALTY
    ELSE Sq(FSub(calculated_freqs[str_n + 1], target_freq))

single_objective_function(current_offsets, str_n, target_freq, g) ==
    LET x_eq == find_equilibrium(current_offsets, g)
    IN  SingleObjectiveOf(calculate_frequencies(x_eq, current_offsets, g), str_n, target_freq)

(***************************************************************************)
(* The two searches.  scipy's minimize and minimize_scalar are not part of *)
(* the repository; the model keeps what they guarantee.  Nelder-Mead       *)
(* returns its best simplex vertex, which is never worse than the starting *)
(* point; the bounded scalar search returns a point of its bracket, here   *)
(* the best of the two ends and the middle.  Both let an exception of the  *)
(* objective propagate.                                                    *)
(***************************************************************************)

\* The literal 0.001 of lines 177-178.
Bracket == Norm(1, 0 - 3)

Zeros == Rep6(Zero)

\* Offset vectors the model draws from (multiples of the bracket).
Off2(a, b) == [Zeros EXCEPT ![1] = FMul(Num(a), Bracket), ![2] = FMul(Num(b), Bracket)]
OffLast(a) == [Zeros EXCEPT ![6] = FMul(Num(a), Bracket)]
OffsetVectors ==
    { Zeros, Off2(1, 0), Off2(0 - 1, 0), Off2(0 - 1, 1), Off2(0 - 2, 0), OffLast(0 - 2) }

\* Line 140: initial_offset or [0] * 6 (every caller passes None).
tune_all_targets_raises(target_freq, g) == FindEquilibriumRaises(g)

\* The vectors result.x may be (line 156).
tune_all_targets(target_freq, g) ==
    LET start == objective_function(Zeros, target_freq, g)
    IN  { x \in OffsetVectors : ~FLt(start, objective_function(x, target_freq, g)) }

\* The closure cost of lines 172-175.
Cost(offset, target_freq, str_n, g, initial_offset) ==
    single_objective_function([initial_offset EXCEPT ![str_n + 1] = offset],
                              str_n, target_freq, g)

tune_one_target_raises(target_freq, str_n, g, initial_offset) == FindEquilibriumRaises(g)

\* The values result.x may be (lines 177-188).
MinimizeScalar(target_freq, str_n, g, initial_offset) ==
    LET a == FSub(initial_offset[str_n + 1], Bracket)
        b == FAdd(initial_offset[str_n + 1], Bracket)
        points == { a, initial_offset[str_n + 1], b }
    IN  { x \in points :
            \A y \in points :
               ~FLt(Cost(y, target_freq, str_n, g, initial_offset),
                    Cost(x, target_freq, str_n, g, initial_offset)) }

\* Lines 190-193 writing the result one string too far.
TuneOneReturnWrongIndex(initial_offset, str_n, x) ==
    [initial_offset EXCEPT ![((str_n + 1) % 6) + 1] = x]

\* Lines 190-193: the vector returned when the search ended at x.
TuneOneReturn(initial_offset, str_n, x) == [initial_offset EXCEPT ![str_n + 1] = x]

tune_one_target(target_freq, str_n, g, initial_offset) ==
    { TuneOneReturn(initial_offset, str_n, x) :
        x \in MinimizeScalar(target_freq, str_n, g, initial_offset) }

(***************************************************************************)
(* State.                                                                  *)
(*   guitar     the Guitar object last constructed (NoGuitar before)       *)
(*   built      how the last constructor call ended                        *)
(*   ctor_args  the arguments of the last constructor call                 *)
(*   orig       the model whose flatten() the last constructor call took   *)
(*   call       the last call of a function of simulation.py: its          *)
(*              arguments, how it ended and what it returned               *)
(*   tuner      the frame of the /tune_guitar request being served         *)
(*   cal        the frame of the calibration function being run            *)
(***************************************************************************)
VARIABLES guitar, built, ctor_args, orig, call, tuner, cal

vars == << guitar, built, ctor_args, orig, call, tuner, cal >>

NoArgs == [argv |-> <<>>, numpy |-> FALSE]

NoCall ==
    [ op |-> "none", x_eq |-> Zero, offsets |-> <<>>, target |-> <<>>, str_n |-> 0,
      outcome |-> "none", value |-> Zero, vec |-> <<>> ]

Returned(c) == c.outcome = "return"

\* ---- model inputs of the construction and physics calls ----

\* A small instrument with round numbers: six equal strings.
UnitParams ==
    << Num(1), Num(1), Num(1000), Rep6(Num(1000)), Rep6(Num(1)), Rep6(Num(1)), Rep6(Num(1)) >>

ParamVariants ==
    { UnitParams,
      [UnitParams EXCEPT ![2] = Zero],                \* r_spr = 0
      [UnitParams EXCEPT ![3] = Num(0 - 6000)],        \* zero denominator of x_eq
      [UnitParams EXCEPT ![7][1] = Zero],             \* a massless first string
      [UnitParams EXCEPT ![7][6] = Num(0 - 1)],       \* a negative density, last string
      [UnitParams EXCEPT ![6][1] = Zero] }            \* scale_length[0] = 0

Flat(p) == << p[1], p[2], p[3] >> \o p[4] \o p[5] \o p[6] \o p[7]

\* Seven arguments of which one per-string array has a wrong length.
Malformed7 ==
    { [UnitParams EXCEPT ![4] = SubSeq(UnitParams[4], 1, 5)],
      [UnitParams EXCEPT ![5] = Append(UnitParams[5], Num(1))],
      [UnitParams EXCEPT ![6] = <<>>],
      [UnitParams EXCEPT ![7] = SubSeq(UnitParams[7], 1, 5)] }

CtorArgvs ==
    { <<>> }
    \cup ParamVariants
    \cup { << Flat(UnitParams) >>, << Flat([UnitParams EXCEPT ![2] = Zero]) >> }
    \cup Malformed7
    \cup { << SubSeq(Flat(UnitParams), 1, 26) >>, << Append(Flat(UnitParams), Num(1)) >>,
           << <<>> >> }
    \cup { << Num(1), Num(1), Num(1000) >>,
           << Num(1), Num(1), Num(1000), Rep6(Num(1000)), Rep6(Num(1)), Rep6(Num(1)),
              Rep6(Num(1)), Num(6) >> }

CtorInputs == { [argv |-> v, numpy |-> n] : v \in CtorArgvs, n \in BOOLEAN }

\* Target vectors: the unit instrument's own pitches, one string sharp, far off.
TargetA == Rep6(Norm(5, 0 - 1))
TargetB == [TargetA EXCEPT ![1] = Norm(68, 0 - 2)]
TargetFar == Rep6(Num(200))
TargetVectors == { TargetA, TargetB, TargetFar }
ScalarTargets == { Norm(5, 0 - 1), Norm(68, 0 - 2) }
Strings == 0..5

\* ---- Guitar(*args) ----
Construct(a) ==
    /\ call.op = "none"
    /\ ctor_args' = a
    /\ orig' = NoGuitar
    /\ IF InitFails(a)
       THEN built' = "AssertionError" /\ guitar' = NoGuitar
       ELSE built' = "ok" /\ guitar' = GuitarInit(a)
    /\ UNCHANGED << call, tuner, cal >>

\* ---- g.flatten() ----
CallFlatten ==
    /\ call.op = "none" /\ built = "ok"
    /\ call' = [NoCall EXCEPT !.op = "flatten", !.outcome = "return", !.vec = flatten(guitar)]
    /\ UNCHANGED << guitar, built, ctor_args, orig, tuner, cal >>

\* ---- Guitar(g.flatten()) ----
Rebuild ==
    /\ call.op = "flatten"
    /\ LET a == [argv |-> << call.vec >>, numpy |-> TRUE]
       IN  /\ ctor_args' = a
           /\ orig' = guitar
           /\ IF InitFails(a)
              THEN built' = "AssertionError" /\ guitar' = NoGuitar
              ELSE built' = "ok" /\ guitar' = GuitarInit(a)
    /\ call' = NoCall
    /\ UNCHANGED << tuner, cal >>

Ready == call.op = "none" /\ built = "ok" /\ WellFormed(guitar)

\* ---- find_equilibrium(offsets, guitar) ----
CallFindEquilibrium(off) ==
    /\ Ready
    /\ call' = IF FindEquilibriumRaises(guitar)
               THEN [NoCall EXCEPT !.op = "find_equilibrium", !.offsets = off,
                                   !.outcome = "ZeroDivisionError"]
               ELSE [NoCall EXCEPT !.op = "find_equilibrium", !.offsets = off,
                                   !.outcome = "return",
                                   !.value = find_equilibrium(off, guitar)]
    /\ UNCHANGED << guitar, built, ctor_args, orig, tuner, cal >>

\* ---- calculate_frequencies(x_eq, offsets, guitar): x_eq as the callers pass it
\*      (from_eq: the equilibrium of the same offsets), or zero ----
CallCalculateFrequencies(from_eq, off) ==
    /\ Ready
    /\ from_eq => ~FindEquilibriumRaises(guitar)
    /\ LET x == IF from_eq THEN find_equilibrium(off, guitar) ELSE Zero
       IN  call' = [NoCall EXCEPT !.op = "calculate_frequencies", !.offsets = off,
                                  !.x_eq = x, !.outcome = "return",
                                  !.vec = calculate_frequencies(x, off, guitar)]
    /\ UNCHANGED << guitar, built, ctor_args, orig, tuner, cal >>

\* ---- objective_function(offsets, target, guitar) ----
CallObjective(off, target) ==
    /\ Ready
    /\ call' = IF FindEquilibriumRaises(guitar)
               THEN [NoCall EXCEPT !.op = "objective_function", !.offsets = off,
                                   !.target = target, !.outcome = "ZeroDivisionError"]
               ELSE [NoCall EXCEPT !.op = "objective_function", !.offsets = off,
                                   !.target = target, !.outcome = "return",
                                   !.x_eq = find_equilibrium(off, guitar),
                                   !.value = objective_function(off, target, guitar)]
    /\ UNCHANGED << guitar, built, ctor_args, orig, tuner, cal >>

\* ---- single_objective_function(offsets, str_n, target, guitar) ----
CallSingleObjective(off, n, t) ==
    /\ Ready
    /\ call' = IF FindEquilibriumRaises(guitar)
               THEN [NoCall EXCEPT !.op = "single_objective_function", !.offsets = off,
                                   !.str_n = n, !.target = << t >>,
                                   !.outcome = "ZeroDivisionError"]
               ELSE [NoCall EXCEPT !.op = "single_objective_function", !.offsets = off,
                                   !.str_n = n, !.target = << t >>, !.outcome = "return",
                                   !.x_eq = find_equilibrium(off, guitar),
                                   !.value = single_objective_function(off, n, t, guitar)]
    /\ UNCHANGED << guitar, built, ctor_args, orig, tuner, cal >>

\* ---- tune_all_targets(target, guitar) ----
CallTuneAllTargets(target) ==
    /\ Ready
    /\ IF tune_all_targets_raises(target, guitar)
       THEN call' = [NoCall EXCEPT !.op = "tune_all_targets", !.target = target,
                                   !.outcome = "ZeroDivisionError"]
       ELSE \E x \in tune_all_targets(target, guitar) :
               call' = [NoCall EXCEPT !.op = "tune_all_targets", !.target = target,
                                      !.outcome = "return", !.vec = x]
    /\ UNCHANGED << guitar, built, ctor_args, orig, tuner, cal >>

\* ---- tune_one_target(target, str_n, guitar, initial_offset) ----
CallTuneOneTarget(t, n, initial) ==
    /\ Ready
    /\ IF tune_one_target_raises(t, n, guitar, initial)
       THEN call' = [NoCall EXCEPT !.op = "tune_one_target", !.offsets = initial,
                                   !.str_n = n, !.target = << t >>,
                                   !.outcome = "ZeroDivisionError"]
       ELSE \E ret \in tune_one_target(t, n, guitar, initial) :
               call' = [NoCall EXCEPT !.op = "tune_one_target", !.offsets = initial,
                                      !.str_n = n, !.target = << t >>,
                                      !.outcome = "return", !.vec = ret]
    /\ UNCHANGED << guitar, built, ctor_args, orig, tuner, cal >>

\* The caller takes the result; the next call may start.
Done ==
    /\ call.op # "none"
    /\ call' = NoCall
    /\ UNCHANGED << guitar, built, ctor_args, orig, tuner, cal >>

\* A local variable not yet assigned.
Unbound == << NaN >>

NoResponse == [ keys |-> {}, success |-> FALSE, error |-> "", target_frequencies |-> <<>> ]

NoTuner ==
    [ pc |-> "idle", data |-> <<>>, detuned_offsets |-> <<>>, tuned_offsets |-> <<>>,
      offsets |-> <<>>, i |-> 0, freq |-> Unbound, target_frequencies |-> <<>>,
      response |-> NoResponse ]

\* The frame of parameter_objective_function and of the cost function it is in:
\* the locals of the running cost function, the tune_one_target calls cost1
\* and cost2 made (steps1, steps2), the cost functions that returned from
\* inside their replay (early), and the three values returned so far.  For a
\* data generator: its name (gen), the sample it fitted first (fitted), the
\* tune_one_target calls it made or was about to make (gsteps) and its list
\* ret.
NoCal ==
    [ pc |-> "idle", real_data |-> <<>>, it |-> 0, str_n |-> 0, offsets |-> <<>>,
      total_cost |-> Zero, start |-> <<>>, steps1 |-> <<>>, steps2 |-> <<>>, early |-> {},
      c1 |-> Unbound, c2 |-> Unbound, c3 |-> Unbound,
      outcome |-> "none", error |-> "", result |-> Zero,
      gen |-> "", fitted |-> <<>>, gsteps |-> <<>>, ret |-> <<>> ]

Init ==
    /\ guitar = NoGuitar
    /\ built = "none"
    /\ ctor_args = NoArgs
    /\ orig = NoGuitar
    /\ call = NoCall
    /\ tuner = NoTuner
    /\ cal = NoCal

Next ==
    \/ \E a \in CtorInputs : Construct(a)
    \/ CallFlatten
    \/ Rebuild
    \/ \E off \in OffsetVectors : CallFindEquilibrium(off)
    \/ \E off \in OffsetVectors, from_eq \in BOOLEAN : CallCalculateFrequencies(from_eq, off)
    \/ \E off \in OffsetVectors, target \in TargetVectors : CallObjective(off, target)
    \/ \E off \in OffsetVectors, n \in Strings, t \in ScalarTargets :
         CallSingleObjective(off, n, t)
    \/ \E target \in TargetVectors : CallTuneAllTargets(target)
    \/ \E t \in ScalarTargets, n \in Strings, initial \in OffsetVectors :
         CallTuneOneTarget(t, n, initial)
    \/ Done

Spec == Init /\ [][Next]_vars

(***************************************************************************)
(* Claims about construction and the physics calls (specification Spec).   *)
(***************************************************************************)

NonPositive(a) == FLe(a, Zero)

\* The tension of string i in the call recorded in c.
CallTension(c, i) == TNew(i, c.x_eq, c.offsets, guitar)

\* C1: the vector tune_one_target returns has six entries and equals the
\* initial offsets at every index other than str_n.
C1_TuneOneTargetFrame ==
    (call.op = "tune_one_target" /\ Returned(call)) =>
        /\ Len(call.vec) = 6
        /\ \A j \in 1..6 : j # call.str_n + 1 => call.vec[j] = call.offsets[j]

\* C1 witness: a call that moved its own string, from offsets that are not all zero.
C1_Witness ==
    /\ call.op = "tune_one_target" /\ Returned(call)
    /\ call.offsets # Zeros
    /\ call.vec[call.str_n + 1] # call.offsets[call.str_n + 1]

\* C2, as claimed: calculate_frequencies returns the invalid marker exactly when
\* some string's tension or linear mass density is non-positive, and six
\* frequencies otherwise.
C2_NonPositiveIsInvalid ==
    call.op = "calculate_frequencies" =>
        /\ call.vec = None \/ Len(call.vec) = 6
        /\ call.vec = None <=>
              \E i \in Strings :
                 \/ NonPositive(CallTension(call, i))
                 \/ NonPositive(guitar.lin_mass_density[i + 1])

\* C3: when some string's tension at the equilibrium of the offsets is negative,
\* calculate_frequencies returns the invalid marker and both objectives return
\* exactly MAX_PENALTY, whatever the target.
C3_NegativeTensionIsMaxPenalty ==
    (/\ Returned(call)
     /\ call.op \in {"calculate_frequencies", "objective_function",
                     "single_objective_function"}
     /\ call.x_eq = find_equilibrium(call.offsets, guitar)
     /\ \E i \in Strings : FLt(CallTension(call, i), Zero)) =>
        IF call.op = "calculate_frequencies" THEN call.vec = None
        ELSE call.value = MAX_PENALTY

\* C3 witness: an objective evaluated where only the last string is slack.
C3_Witness ==
    /\ call.op = "objective_function" /\ Returned(call)
    /\ FLt(CallTension(call, 5), Zero)
    /\ \A i \in 0..4 : FLt(Zero, CallTension(call, i))
    /\ call.value = MAX_PENALTY

\* C4, as claimed: every call of objective_function and single_objective_function
\* ends by returning a finite number.
C4_ObjectivesTotal ==
    call.op \in {"objective_function", "single_objective_function"} =>
        Returned(call) /\ IsFinite(call.value)

\* The constructor arguments C5 calls malformed.
MalformedArgs(a) ==
    \/ Len(a.argv) = 1 /\ Len(a.argv[1]) # 27
    \/ Len(a.argv) = 7 /\ \E j \in 4..7 : Len(a.argv[j]) # 6

\* C5, as claimed: a constructor call with a flattened vector that has not 27
\* elements, or with a per-string array that has not 6, fails and builds nothing.
C5_MalformedArgsRejected ==
    (built # "none" /\ MalformedArgs(ctor_args)) =>
        built = "AssertionError" /\ guitar = NoGuitar

SameFields(g, h) ==
    /\ g.r_str = h.r_str /\ g.r_spr = h.r_spr /\ g.k_spr = h.k_spr
    /\ g.k_str = h.k_str /\ g.T_str0 = h.T_str0
    /\ g.scale_length = h.scale_length /\ g.lin_mass_density = h.lin_mass_density
    /\ g.T_spr0 = h.T_spr0 /\ g.k_str_total = h.k_str_total

\* C6: flatten(P) has 27 elements in the order r_str, r_spr, k_spr, k_str,
\* T_str0, scale_length, lin_mass_density, and Guitar(flatten(P)) has every
\* field, the derived ones included, equal to P's.
C6_FlattenReshapeInverse ==
    /\ (call.op = "flatten" /\ WellFormed(guitar)) =>
          /\ Len(call.vec) = 27
          /\ call.vec[1] = guitar.r_str /\ call.vec[2] = guitar.r_spr
          /\ call.vec[3] = guitar.k_spr
          /\ \A i \in 1..6 :
                /\ call.vec[3 + i] = guitar.k_str[i]
                /\ call.vec[9 + i] = guitar.T_str0[i]
                /\ call.vec[15 + i] = guitar.scale_length[i]
                /\ call.vec[21 + i] = guitar.lin_mass_density[i]
    /\ (orig # NoGuitar /\ WellFormed(orig)) =>
          built = "ok" /\ SameFields(guitar, orig)

\* C6 witness: a model with distinct per-string arrays rebuilt from its flatten().
C6_Witness ==
    /\ orig # NoGuitar /\ WellFormed(orig) /\ built = "ok"
    /\ orig.k_str # orig.T_str0 /\ orig.scale_length # orig.lin_mass_density
    /\ guitar.numpy /\ ~orig.numpy

(***************************************************************************)
(* The tuning service: POST /tune_guitar (tune_guitar.py, lines 20-78).    *)
(* One request is served at a time; tuner.pc is the handler's position.   *)
(***************************************************************************)

\* A JSON value that is not a number, where a pitch is expected.
JsonString == << 0, 98 >>
IsNumber(v) == v[2] # 98

\* Line 42: the calibrated parameters (a Python list), to the model's precision.
TunerParams ==
    << Norm(4, 0 - 3), Norm(5525, 0 - 5), Norm(6, 4),
       Norm(15646, 0), Norm(26442, 0), Norm(45218, 0),
       Norm(105769, 0), Norm(202777, 0), Norm(331077, 0),
       Norm(72525, 0 - 3), Norm(68787, 0 - 3), Norm(74105, 0 - 3),
       Norm(97277, 0 - 3), Norm(104671, 0 - 3), Norm(95920, 0 - 3),
       Norm(83685, 0 - 5), Norm(83682, 0 - 5), Norm(45852, 0 - 5),
       Norm(83684, 0 - 5), Norm(83678, 0 - 5), Norm(45882, 0 - 5),
       Norm(83585, 0 - 9), Norm(134445, 0 - 9), Norm(818238, 0 - 9),
       Norm(1796115, 0 - 9), Norm(3226024, 0 - 9), Norm(14614149, 0 - 9) >>

TunerArgs == [argv |-> << TunerParams >>, numpy |-> FALSE]

\* Line 45.
tuned_freq ==
    << Norm(32963, 0 - 2), Norm(24694, 0 - 2), Norm(196, 0),
       Norm(14683, 0 - 2), Norm(110, 0), Norm(8241, 0 - 2) >>

\* Request bodies: none, an object without 'pitches', an object with pitches.
Body(present, has_pitches, pitches) ==
    [ present |-> present, has_pitches |-> has_pitches, pitches |-> pitches ]

\* Measured pitches the model sends: in tune, flat, far too low, not numbers.
PitchLists ==
    { tuned_freq,
      [tuned_freq EXCEPT ![1] = Norm(3, 2)],
      Rep6(Num(1)),
      [tuned_freq EXCEPT ![3] = JsonString],
      SubSeq(tuned_freq, 1, 5),
      Append(tuned_freq, Num(60)),
      <<>> }

RequestBodies ==
    { Body(FALSE, FALSE, <<>>), Body(TRUE, FALSE, <<>>) }
    \cup { Body(TRUE, TRUE, p) : p \in PitchLists }

ErrorResponse(text) ==
    [ keys |-> {"success", "error"}, success |-> FALSE, error |-> text,
      target_frequencies |-> <<>> ]

\* Lines 69-72.
SuccessResponse(target_frequencies) ==
    [ keys |-> {"success", "target_frequencies"}, success |-> TRUE, error |-> "",
      target_frequencies |-> target_frequencies ]

\* What the handler would answer if line 61 let None through: freq[i] raises
\* and line 77 sends the exception's text.
InvalidResponseRaw == ErrorResponse("'NoneType' object is not subscriptable")

\* Lines 62-65.
InvalidResponse == ErrorResponse("Invalid Tunings for a Guitar")

\* Lines 74-78: str(e) of the TypeError a non-numeric pitch raises in
\* objective_function (line 136).
ExceptionResponse == ErrorResponse("unsupported operand type(s) for -")

\* Lines 22-29: the request is read and checked.
Receive(body) ==
    /\ tuner.pc = "idle"
    /\ IF ~body.present \/ ~body.has_pitches
       THEN tuner' = [tuner EXCEPT !.pc = "done", !.data = body,
                                   !.response = ErrorResponse("No pitch data provided")]
       ELSE IF Len(body.pitches) # 6
       THEN tuner' = [tuner EXCEPT !.pc = "done", !.data = body,
                                   !.response = ErrorResponse("Expected 6 string pitches")]
       ELSE tuner' = [tuner EXCEPT !.pc = "detuned", !.data = body]
    /\ UNCHANGED << guitar, built, ctor_args, orig, call, cal >>

\* tune_all_targets on targets that may hold a non-number: the objective's
\* subtraction (line 136) then raises TypeError at the first valid point.
TargetsNumeric(target) == \A j \in 1..Len(target) : IsNumber(target[j])

\* Lines 42-48: the model is built and the measured state is solved for.
SolveDetuned ==
    /\ tuner.pc = "detuned"
    /\ ctor_args' = TunerArgs
    /\ built' = "ok"
    /\ guitar' = GuitarInit(TunerArgs)
    /\ IF ~TargetsNumeric(tuner.data.pitches)
       THEN tuner' = [tuner EXCEPT !.pc = "done", !.response = ExceptionResponse]
       ELSE \E x \in tune_all_targets(tuner.data.pitches, GuitarInit(TunerArgs)) :
               tuner' = [tuner EXCEPT !.pc = "tuned", !.detuned_offsets = x]
    /\ UNCHANGED << orig, call, cal >>

\* Lines 51-55: standard tuning is solved for; the loop's variables are set.
SolveTuned ==
    /\ tuner.pc = "tuned"
    /\ \E x \in tune_all_targets(tuned_freq, guitar) :
          tuner' = [tuner EXCEPT !.pc = "loop", !.tuned_offsets = x,
                                 !.target_frequencies = <<>>,
                                 !.offsets = tuner.detuned_offsets, !.i = 0]
    /\ UNCHANGED << guitar, built, ctor_args, orig, call, cal >>

\* Committing string i with the order of the strings reversed.
CommitOffsetReversed(offsets, tuned_offsets, i) ==
    [offsets EXCEPT ![6 - i] = tuned_offsets[6 - i]]

\* Line 58.
CommitOffset(offsets, tuned_offsets, i) ==
    [offsets EXCEPT ![i + 1] = tuned_offsets[i + 1]]

\* Lines 57-67: one pass of the loop body, for string tuner.i.
Commit ==
    /\ tuner.pc = "loop" /\ tuner.i < 6
    /\ LET offsets == CommitOffset(tuner.offsets, tuner.tuned_offsets, tuner.i)
           x == find_equilibrium(offsets, guitar)
           freq == calculate_frequencies(x, offsets, guitar)
       IN  IF freq = None
           THEN tuner' = [tuner EXCEPT !.pc = "done", !.offsets = offsets, !.freq = freq,
                                       !.response = InvalidResponse]
           ELSE tuner' = [tuner EXCEPT !.offsets = offsets, !.freq = freq,
                                       !.target_frequencies =
                                           Append(tuner.target_frequencies,
                                                  freq[tuner.i + 1]),
                                       !.i = tuner.i + 1]
    /\ UNCHANGED << guitar, built, ctor_args, orig, call, cal >>

\* Lines 69-72: the loop has ended.
Respond ==
    /\ tuner.pc = "loop" /\ tuner.i = 6
    /\ tuner' = [tuner EXCEPT !.pc = "done",
                              !.response = SuccessResponse(tuner.target_frequencies)]
    /\ UNCHANGED << guitar, built, ctor_args, orig, call, cal >>

\* The response is sent; the next request may come.
Sent ==
    /\ tuner.pc = "done"
    /\ tuner' = NoTuner
    /\ UNCHANGED << guitar, built, ctor_args, orig, call, cal >>

NextTuner ==
    \/ \E body \in RequestBodies : Receive(body)
    \/ SolveDetuned
    \/ SolveTuned
    \/ Commit
    \/ Respond
    \/ Sent

SpecTuner == Init /\ [][NextTuner]_vars

(***************************************************************************)
(* Claims about the tuning service (specification SpecTuner).              *)
(***************************************************************************)

\* Standard-tuning offsets on the first k strings, detuned offsets on the rest.
Mix(k) ==
    [j \in 1..6 |-> IF j <= k THEN tuner.tuned_offsets[j] ELSE tuner.detuned_offsets[j]]

\* The frequency vector recomputed at an offset vector.
Recomputed(offsets) == calculate_frequencies(find_equilibrium(offsets, guitar), offsets, guitar)

\* C8: strings are committed in the order 0..5; after the commit of string i the
\* working offsets are the standard-tuning offsets at 0..i and the detuned ones
\* at i+1..5; the value recorded is the recomputed frequency at index i; a
\* successful response carries the 6 values so recorded.
C8_CommitsInStringOrder ==
    /\ tuner.pc = "loop" =>
          /\ Len(tuner.target_frequencies) = tuner.i
          /\ tuner.offsets = Mix(tuner.i)
          /\ \A m \in 1..tuner.i : tuner.target_frequencies[m] = Recomputed(Mix(m))[m]
    /\ tuner.response.success =>
          /\ tuner.i = 6
          /\ Len(tuner.response.target_frequencies) = 6
          /\ tuner.response.target_frequencies = tuner.target_frequencies
          /\ \A m \in 1..6 : tuner.response.target_frequencies[m] = Recomputed(Mix(m))[m]

\* C8 witness: a successful response after offsets that really changed.
C8_Witness ==
    /\ tuner.response.success
    /\ tuner.detuned_offsets # tuner.tuned_offsets
    /\ tuner.offsets = tuner.tuned_offsets

\* C9: when a recomputed frequency vector is the invalid marker, the request
\* ends with success = false, the fixed reason, and no list of frequencies.
C9_InvalidConfigurationResponse ==
    tuner.freq = None =>
        /\ tuner.pc = "done"
        /\ tuner.response.success = FALSE
        /\ tuner.response.error = "Invalid Tunings for a Guitar"
        /\ tuner.response.keys = {"success", "error"}
        /\ tuner.response.target_frequencies = <<>>

\* C9 witness: the invalid configuration is met after frequencies were recorded.
C9_Witness ==
    /\ tuner.freq = None
    /\ Len(tuner.data.pitches) = 6
    /\ Len(tuner.target_frequencies) >= 1
    /\ tuner.response.success = FALSE


(***************************************************************************)
(* Calibration (simulation.py, cost1, cost2, cost3 and                     *)
(* parameter_objective_function).  One action per statement group of the   *)
(* running function: the fit of the first sample, one pass of a loop, a    *)
(* return.                                                                 *)
(***************************************************************************)

\* Largest number of samples in a calibration sequence of the model.
MaxSamples == 8

\* Sample i (1-based): the string retuned next is sharp; samples of the second
\* round sit on a different base pitch, so that no two samples are equal.
SampleOf(i) ==
    [j \in 1..6 |-> IF j = ((i - 1) % 6) + 1 THEN Norm(7, 0 - 1)
                    ELSE IF i > 6 THEN Norm(6, 0 - 1) ELSE Norm(5, 0 - 1)]

DataOf(n) == [i \in 1..n |-> SampleOf(i)]

\* A sequence whose third sample asks string 1 for a pitch out of reach.
DataOutOfReach == [DataOf(4) EXCEPT ![3][2] = Num(1000)]

\* A sequence whose second sample asks string 1 for a pitch out of reach, the
\* string the backward replay retunes on its way to that sample.
DataOutOfReachBackward == [DataOf(3) EXCEPT ![2][2] = Num(1000)]

SampleSets ==
    { DataOf(0), DataOf(1), DataOf(2), DataOf(MaxSamples), DataOutOfReach,
      DataOutOfReachBackward }

\* Parameter vectors handed to parameter_objective_function, as the numpy
\* array the outer search passes or as a Python list.  SlackParams is the
\* unit instrument with half the string tension: one bracket of slack on a
\* string takes its tension below zero.
SlackParams == [UnitParams EXCEPT ![5] = Rep6(Norm(5, 0 - 1))]

ParameterVectors ==
    { [argv |-> << Flat(UnitParams) >>, numpy |-> TRUE],
      [argv |-> << Flat(SlackParams) >>, numpy |-> TRUE],
      [argv |-> << Flat([UnitParams EXCEPT ![7][6] = Num(0 - 1)]) >>, numpy |-> TRUE],
      [argv |-> << Flat([UnitParams EXCEPT ![2] = Zero]) >>, numpy |-> FALSE],
      [argv |-> << SubSeq(Flat(UnitParams), 1, 26) >>, numpy |-> TRUE] }

\* np.sum((np.array(real_freq) - np.array(new_freq))**2)
SquaredError(real_freq, new_freq) ==
    FSum([i \in 1..6 |-> Sq(FSub(real_freq[i], new_freq[i]))])

\* real_data[1:]
Forward(real_data) == [k \in 1..(Len(real_data) - 1) |-> real_data[k + 1]]

\* real_data[-2::-1]
Backward(real_data) == [k \in 1..(Len(real_data) - 1) |-> real_data[Len(real_data) - k]]

\* Line 257 moving the string index by two.
NextStringSkipping(str_n) == (str_n + 2) % 6

\* Line 257.
NextString(str_n) == (str_n + 1) % 6

\* Line 286 leaving the string index where it is.
PrevStringStuck(str_n) == str_n

\* Line 286.
PrevString(str_n) == (str_n - 1) % 6

\* Line 346 leaving cost3 out.
MeanOfTwo(c1, c2, c3) == FDiv(FAdd(c1, c2), Num(2))

\* Line 346.
MeanOfCosts(c1, c2, c3) == FDiv(FAdd(FAdd(c1, c2), c3), Num(3))

\* An exception leaves every frame up to the caller of
\* parameter_objective_function.
Raise(e) == [cal EXCEPT !.pc = "done", !.outcome = "raise", !.error = e]

\* Lines 340-341: Guitar(parameters).
CalStart(parameters, real_data) ==
    /\ cal.pc = "idle"
    /\ call.op = "none"
    /\ tuner.pc = "idle"
    /\ ctor_args' = parameters
    /\ orig' = NoGuitar
    /\ IF InitFails(parameters)
       THEN /\ built' = "AssertionError"
            /\ guitar' = NoGuitar
            /\ cal' = [NoCal EXCEPT !.real_data = real_data, !.pc = "done",
                                    !.outcome = "raise", !.error = "AssertionError"]
       ELSE /\ built' = "ok"
            /\ guitar' = GuitarInit(parameters)
            /\ cal' = [NoCal EXCEPT !.real_data = real_data, !.pc = "cost1"]
    /\ UNCHANGED << call, tuner >>


\* The frequencies a cost function recomputes for the offsets it holds.
Replayed(offsets) == calculate_frequencies(find_equilibrium(offsets, guitar), offsets, guitar)

\* A tune_one_target call of a replay loop, as the loop made it.
StepOf(real_freq, str_n, initial_offset, new_offsets) ==
    [ real_freq |-> real_freq, str_n |-> str_n, target_freq |-> real_freq[str_n + 1],
      initial_offset |-> initial_offset, new_offsets |-> new_offsets ]

\* cost1, lines 233-244: the fit of real_data[0].
Cost1Begin ==
    /\ cal.pc = "cost1"
    /\ IF Len(cal.real_data) = 0
       THEN cal' = Raise("IndexError")
       ELSE LET starting_freq == cal.real_data[1]
            IN  IF tune_all_targets_raises(starting_freq, guitar)
                THEN cal' = Raise("ZeroDivisionError")
                ELSE \E offsets \in tune_all_targets(starting_freq, guitar) :
                       LET freq0 == Replayed(offsets)
                       IN  IF freq0 = None
                           THEN cal' = [cal EXCEPT !.c1 = MAX_PENALTY, !.pc = "cost2",
                                                   !.early = @ \cup {"cost1"}]
                           ELSE cal' = [cal EXCEPT
                                          !.total_cost = FAdd(Zero, SquaredError(starting_freq, freq0)),
                                          !.offsets = offsets, !.start = offsets,
                                          !.str_n = 0, !.it = 0, !.pc = "cost1_loop"]
    /\ UNCHANGED << guitar, built, ctor_args, orig, call, tuner >>

\* cost1, lines 245-257: one pass of the loop over real_data[1:].
Cost1Step ==
    /\ cal.pc = "cost1_loop"
    /\ cal.it < Len(Forward(cal.real_data))
    /\ LET real_freq == Forward(cal.real_data)[cal.it + 1]
           target_freq == real_freq[cal.str_n + 1]
       IN  IF tune_one_target_raises(target_freq, cal.str_n, guitar, cal.offsets)
           THEN cal' = Raise("ZeroDivisionError")
           ELSE \E new_offsets \in tune_one_target(target_freq, cal.str_n, guitar, cal.offsets) :
                  LET new_freq == Replayed(new_offsets)
                      step == StepOf(real_freq, cal.str_n, cal.offsets, new_offsets)
                  IN  IF new_freq = None
                      THEN cal' = [cal EXCEPT !.steps1 = Append(@, step), !.c1 = MAX_PENALTY,
                                              !.pc = "cost2", !.early = @ \cup {"cost1"}]
                      ELSE cal' = [cal EXCEPT
                                     !.steps1 = Append(@, step),
                                     !.total_cost = FAdd(@, SquaredError(real_freq, new_freq)),
                                     !.offsets = new_offsets,
                                     !.str_n = NextString(cal.str_n),
                                     !.it = @ + 1]
    /\ UNCHANGED << guitar, built, ctor_args, orig, call, tuner >>

\* cost1, line 259.
Cost1Return ==
    /\ cal.pc = "cost1_loop"
    /\ cal.it = Len(Forward(cal.real_data))
    /\ cal' = [cal EXCEPT !.c1 = FDiv(cal.total_cost, Num(Len(cal.real_data))), !.pc = "cost2"]
    /\ UNCHANGED << guitar, built, ctor_args, orig, call, tuner >>

\* cost2, lines 262-273: the fit of real_data[-1] and the first string index.
Cost2Begin ==
    /\ cal.pc = "cost2"
    /\ IF Len(cal.real_data) = 0
       THEN cal' = Raise("IndexError")
       ELSE LET starting_freq == cal.real_data[Len(cal.real_data)]
            IN  IF tune_all_targets_raises(starting_freq, guitar)
                THEN cal' = Raise("ZeroDivisionError")
                ELSE \E offsets \in tune_all_targets(starting_freq, guitar) :
                       LET freq0 == Replayed(offsets)
                       IN  IF freq0 = None
                           THEN cal' = [cal EXCEPT !.c2 = MAX_PENALTY, !.pc = "cost3",
                                                   !.early = @ \cup {"cost2"}]
                           ELSE cal' = [cal EXCEPT
                                          !.total_cost = FAdd(Zero, SquaredError(starting_freq, freq0)),
                                          !.offsets = offsets,
                                          !.str_n = (Len(cal.real_data) - 2) % 6,
                                          !.it = 0, !.pc = "cost2_loop"]
    /\ UNCHANGED << guitar, built, ctor_args, orig, call, tuner >>

\* cost2, lines 274-286: one pass of the loop over real_data[-2::-1].
Cost2Step ==
    /\ cal.pc = "cost2_loop"
    /\ cal.it < Len(Backward(cal.real_data))
    /\ LET real_freq == Backward(cal.real_data)[cal.it + 1]
           target_freq == real_freq[cal.str_n + 1]
       IN  IF tune_one_target_raises(target_freq, cal.str_n, guitar, cal.offsets)
           THEN cal' = Raise("ZeroDivisionError")
           ELSE \E new_offsets \in tune_one_target(target_freq, cal.str_n, guitar, cal.offsets) :
                  LET new_freq == Replayed(new_offsets)
                      step == StepOf(real_freq, cal.str_n, cal.offsets, new_offsets)
                  IN  IF new_freq = None
                      THEN cal' = [cal EXCEPT !.steps2 = Append(@, step), !.c2 = MAX_PENALTY,
                                              !.pc = "cost3", !.early = @ \cup {"cost2"}]
                      ELSE cal' = [cal EXCEPT
                                     !.steps2 = Append(@, step),
                                     !.total_cost = FAdd(@, SquaredError(real_freq, new_freq)),
                                     !.offsets = new_offsets,
                                     !.str_n = PrevString(cal.str_n),
                                     !.it = @ + 1]
    /\ UNCHANGED << guitar, built, ctor_args, orig, call, tuner >>

\* cost2, line 288.
Cost2Return ==
    /\ cal.pc = "cost2_loop"
    /\ cal.it = Len(Backward(cal.real_data))
    /\ cal' = [cal EXCEPT !.c2 = FDiv(cal.total_cost, Num(Len(cal.real_data))), !.pc = "cost3"]
    /\ UNCHANGED << guitar, built, ctor_args, orig, call, tuner >>

\* cost3, line 291.
Cost3Begin ==
    /\ cal.pc = "cost3"
    /\ cal' = [cal EXCEPT !.total_cost = Zero, !.it = 0, !.pc = "cost3_loop"]
    /\ UNCHANGED << guitar, built, ctor_args, orig, call, tuner >>

\* cost3, lines 292-299: one pass of the loop over real_data.
Cost3Step ==
    /\ cal.pc = "cost3_loop"
    /\ cal.it < Len(cal.real_data)
    /\ LET real_freq == cal.real_data[cal.it + 1]
       IN  IF tune_all_targets_raises(real_freq, guitar)
           THEN cal' = Raise("ZeroDivisionError")
           ELSE \E new_offsets \in tune_all_targets(real_freq, guitar) :
                  LET new_freq == Replayed(new_offsets)
                  IN  IF new_freq = None
                      THEN cal' = [cal EXCEPT !.c3 = MAX_PENALTY, !.pc = "mean",
                                              !.early = @ \cup {"cost3"}]
                      ELSE cal' = [cal EXCEPT
                                     !.total_cost = FAdd(@, SquaredError(real_freq, new_freq)),
                                     !.offsets = new_offsets,
                                     !.it = @ + 1]
    /\ UNCHANGED << guitar, built, ctor_args, orig, call, tuner >>

\* cost3, line 301 (an int 0 divided by len 0 raises).
Cost3Return ==
    /\ cal.pc = "cost3_loop"
    /\ cal.it = Len(cal.real_data)
    /\ cal' = IF Len(cal.real_data) = 0
              THEN Raise("ZeroDivisionError")
              ELSE [cal EXCEPT !.c3 = FDiv(cal.total_cost, Num(Len(cal.real_data))),
                               !.pc = "mean"]
    /\ UNCHANGED << guitar, built, ctor_args, orig, call, tuner >>

\* parameter_objective_function, line 346.
CalReturn ==
    /\ cal.pc = "mean"
    /\ cal' = [cal EXCEPT !.result = MeanOfCosts(cal.c1, cal.c2, cal.c3),
                          !.outcome = "return", !.pc = "done"]
    /\ UNCHANGED << guitar, built, ctor_args, orig, call, tuner >>

\* The caller takes the value or the exception; the frame is gone.
CalDone ==
    /\ cal.pc = "done"
    /\ cal' = NoCal
    /\ UNCHANGED << guitar, built, ctor_args, orig, call, tuner >>

NextCal ==
    \/ \E parameters \in ParameterVectors, real_data \in SampleSets :
         CalStart(parameters, real_data)
    \/ Cost1Begin
    \/ Cost1Step
    \/ Cost1Return
    \/ Cost2Begin
    \/ Cost2Step
    \/ Cost2Return
    \/ Cost3Begin
    \/ Cost3Step
    \/ Cost3Return
    \/ CalReturn
    \/ CalDone

SpecCal == Init /\ [][NextCal]_vars


(***************************************************************************)
(* Claims checked on SpecCal.                                              *)
(***************************************************************************)

\* parameter_objective_function has handed a value back.
CalReturned == cal.pc = "done" /\ cal.outcome = "return"

\* A cost function has ended with a value.
HasValue(c) == c # Unbound

\* C7: whenever parameter_objective_function returns, the model was built from
\* the 27-element vector it was given, each of cost1, cost2 and cost3 has
\* returned a value on that model (MAX_PENALTY for a cost that stopped at an
\* invalid frequency vector), and the value returned is exactly
\* (cost1 + cost2 + cost3) / 3; when it does not return, a cost function raised
\* and that sum has no value either.
C7_ObjectiveIsMeanOfCosts ==
    /\ CalReturned =>
         /\ Len(ctor_args.argv[1]) = 27
         /\ guitar = GuitarInit(ctor_args)
         /\ HasValue(cal.c1) /\ HasValue(cal.c2) /\ HasValue(cal.c3)
         /\ "cost1" \in cal.early => cal.c1 = MAX_PENALTY
         /\ "cost2" \in cal.early => cal.c2 = MAX_PENALTY
         /\ "cost3" \in cal.early => cal.c3 = MAX_PENALTY
         /\ cal.result = FDiv(FAdd(FAdd(cal.c1, cal.c2), cal.c3), Num(3))
    /\ (cal.pc = "done" /\ cal.outcome = "raise" /\ built = "ok") =>
         ~(HasValue(cal.c1) /\ HasValue(cal.c2) /\ HasValue(cal.c3))

\* A return where cost1 is MAX_PENALTY and cost3 is an ordinary mean.
C7_Witness ==
    /\ CalReturned
    /\ cal.c1 = MAX_PENALTY /\ "cost1" \in cal.early
    /\ "cost3" \notin cal.early /\ IsFinite(cal.c3) /\ cal.c3 # MAX_PENALTY
    /\ IsFinite(cal.result)

\* The k-th tune_one_target call of cost1 is the step for sample k (0-based):
\* string (k-1) mod 6, that sample's value at that string, and the offsets of
\* the step before (of the tune_all_targets fit for k = 1).
ForwardStepOk(k) ==
    LET step == cal.steps1[k]
    IN  /\ step.real_freq = cal.real_data[k + 1]
        /\ step.str_n = (k - 1) % 6
        /\ step.target_freq = cal.real_data[k + 1][((k - 1) % 6) + 1]
        /\ step.initial_offset = IF k = 1 THEN cal.start ELSE cal.steps1[k - 1].new_offsets
        /\ step.new_offsets \in tune_one_target(step.target_freq, step.str_n, guitar,
                                                step.initial_offset)

\* C10 (as stated): once cost1 has ended with a value, every sample 1..n-1 has
\* had its step, in increasing order and once each, with string index
\* (i-1) mod 6, the sample's value at that index as target and the previous
\* step's offsets as the start.
C10_EverySampleReplayed ==
    HasValue(cal.c1) =>
        /\ Len(cal.steps1) = Len(cal.real_data) - 1
        /\ \A k \in 1..Len(cal.steps1) : ForwardStepOk(k)

\* C10 (amended): cost1 fits sample 0 with tune_all_targets before any step;
\* the steps it takes are those of samples 1, 2, ... in increasing order, once
\* each, each with string index (i-1) mod 6, the sample's value at that index
\* and the offsets of the step before; it takes all n-1 of them unless a
\* frequency vector is invalid, and then it returns MAX_PENALTY at that step
\* (or at the fit of sample 0) and leaves the later samples alone.
C10_ForwardReplayInOrder ==
    /\ \A k \in 1..Len(cal.steps1) : ForwardStepOk(k)
    /\ cal.steps1 # <<>> =>
         /\ Len(cal.steps1) <= Len(cal.real_data) - 1
         /\ cal.start \in tune_all_targets(cal.real_data[1], guitar)
    /\ (cal.pc = "cost1_loop") => Len(cal.steps1) = cal.it
    /\ (HasValue(cal.c1) /\ "cost1" \notin cal.early) =>
         Len(cal.steps1) = Len(cal.real_data) - 1
    /\ (HasValue(cal.c1) /\ "cost1" \in cal.early) =>
         /\ cal.c1 = MAX_PENALTY
         /\ cal.steps1 # <<>> => Replayed(cal.steps1[Len(cal.steps1)].new_offsets) = None

\* cost1 has run through a sequence long enough for the string index to wrap.
C10_Witness ==
    /\ HasValue(cal.c1) /\ "cost1" \notin cal.early
    /\ Len(cal.steps1) >= 7
    /\ cal.steps1[7].str_n = 0
    /\ cal.steps1[7].new_offsets # cal.start


\* The k-th tune_one_target call of cost2 is the step from sample j+1 to
\* sample j (0-based) with j = n-1-k: string j mod 6, which is the string the
\* forward convention retunes between samples j and j+1, that sample's value
\* at that string, and the offsets of the step before (of a tune_all_targets
\* fit of the last sample for k = 1).
BackwardStepOk(k) ==
    LET step == cal.steps2[k]
        n == Len(cal.real_data)
        j == n - 1 - k
    IN  /\ step.real_freq = cal.real_data[j + 1]
        /\ step.str_n = j % 6
        /\ step.str_n = ((n - 2) - (k - 1)) % 6
        /\ step.str_n = ((j + 1) - 1) % 6
        /\ step.target_freq = cal.real_data[j + 1][(j % 6) + 1]
        /\ k > 1 => step.initial_offset = cal.steps2[k - 1].new_offsets
        /\ k = 1 => step.initial_offset \in tune_all_targets(cal.real_data[n], guitar)
        /\ step.new_offsets \in tune_one_target(step.target_freq, step.str_n, guitar,
                                                step.initial_offset)

\* C11 (as stated): once cost2 has ended with a value, every sample n-2 down
\* to 0 has had its step, in decreasing order and once each, the step to
\* sample j with string index j mod 6 (starting at (n-2) mod 6, one less
\* modulo 6 each step) and with the offsets of the step before.
C11_EverySampleReplayedBackward ==
    HasValue(cal.c2) =>
        /\ Len(cal.steps2) = Len(cal.real_data) - 1
        /\ \A k \in 1..Len(cal.steps2) : BackwardStepOk(k)

\* C11 (amended): cost2 fits the last sample with tune_all_targets before any
\* step; the steps it takes are those of samples n-2, n-3, ... in decreasing
\* order, once each, the step to sample j with string index j mod 6 and the
\* offsets of the step before; it takes all n-1 of them unless a frequency
\* vector is invalid, and then it returns MAX_PENALTY at that step (or at the
\* fit of the last sample) and leaves the earlier samples alone.
C11_BackwardReplayInOrder ==
    /\ \A k \in 1..Len(cal.steps2) : BackwardStepOk(k)
    /\ cal.steps2 # <<>> => Len(cal.steps2) <= Len(cal.real_data) - 1
    /\ (cal.pc = "cost2_loop") =>
         /\ Len(cal.steps2) = cal.it
         /\ cal.str_n = (Len(cal.real_data) - 2 - cal.it) % 6
    /\ (HasValue(cal.c2) /\ "cost2" \notin cal.early) =>
         Len(cal.steps2) = Len(cal.real_data) - 1
    /\ (HasValue(cal.c2) /\ "cost2" \in cal.early) =>
         /\ cal.c2 = MAX_PENALTY
         /\ cal.steps2 # <<>> => Replayed(cal.steps2[Len(cal.steps2)].new_offsets) = None

\* cost2 has run back through a sequence long enough for the string index to
\* wrap from 0 to 5.
C11_Witness ==
    /\ HasValue(cal.c2) /\ "cost2" \notin cal.early
    /\ Len(cal.steps2) >= 7
    /\ cal.steps2[Len(cal.steps2) - 6].str_n = 0
    /\ cal.steps2[Len(cal.steps2) - 5].str_n = 5
    /\ cal.steps2[Len(cal.steps2)].real_freq = cal.real_data[1]


(***************************************************************************)
(* The data generators (simulation.py, generate_artificial_data and        *)
(* generate_artificial_data_reversed), called with a model the caller      *)
(* built from a parameter vector.                                          *)
(***************************************************************************)

GeneratorNames == { "generate_artificial_data", "generate_artificial_data_reversed" }

\* Models handed to the generators: built from numpy vectors, so that no
\* division raises.
GeneratorVectors == { p \in ParameterVectors : p.numpy /\ ~InitFails(p) }

\* The sample sequences of the cost functions, and one whose only sample is
\* out of reach on every string, so that any offsets fit it equally badly.
GeneratorSampleSets == SampleSets \cup { << Rep6(Num(1000)) >> }

\* real_data[:0:-1]
Reversed(real_data) == [k \in 1..(Len(real_data) - 1) |-> real_data[Len(real_data) + 1 - k]]

\* Lines 210 and 221: any(x == 0 for x in freq).
AnyZero(freq) == \E i \in 1..Len(freq) : IsZero(freq[i])

\* real_freq[str_n] of a six-element sample (lines 216, 316): a negative index
\* counts from the end, an index outside -6..5 raises IndexError.
IndexOk(str_n) == str_n \in (0 - 6)..5
Item(real_freq, str_n) == IF str_n < 0 THEN real_freq[str_n + 7] ELSE real_freq[str_n + 1]

\* The caller's Guitar(parameters) and the call of the generator.
GenStart(name, parameters, real_data) ==
    /\ cal.pc = "idle"
    /\ call.op = "none"
    /\ tuner.pc = "idle"
    /\ ctor_args' = parameters
    /\ orig' = NoGuitar
    /\ built' = "ok"
    /\ guitar' = GuitarInit(parameters)
    /\ cal' = [NoCal EXCEPT !.real_data = real_data, !.gen = name, !.pc = "gen"]
    /\ UNCHANGED << call, tuner >>

\* generate_artificial_data, lines 205-214: the fit of real_data[0].  A freq0
\* of None is iterated by any() and raises TypeError.
GenForwardBegin ==
    /\ cal.pc = "gen" /\ cal.gen = "generate_artificial_data"
    /\ IF Len(cal.real_data) = 0
       THEN cal' = Raise("IndexError")
       ELSE LET starting_freq == cal.real_data[1]
            IN  \E offsets \in tune_all_targets(starting_freq, guitar) :
                  LET freq0 == Replayed(offsets)
                  IN  IF freq0 = None
                      THEN cal' = [Raise("TypeError") EXCEPT !.fitted = starting_freq]
                      ELSE IF AnyZero(freq0)
                      THEN cal' = [cal EXCEPT !.fitted = starting_freq, !.ret = None,
                                              !.outcome = "return", !.pc = "done"]
                      ELSE cal' = [cal EXCEPT !.fitted = starting_freq, !.offsets = offsets,
                                              !.start = offsets, !.str_n = 0, !.it = 0,
                                              !.ret = << freq0 >>, !.pc = "gen_loop"]
    /\ UNCHANGED << guitar, built, ctor_args, orig, call, tuner >>

\* generate_artificial_data, lines 215-228: one pass of the loop over
\* real_data[1:].
GenForwardStep ==
    /\ cal.pc = "gen_loop" /\ cal.gen = "generate_artificial_data"
    /\ cal.it < Len(Forward(cal.real_data))
    /\ LET real_freq == Forward(cal.real_data)[cal.it + 1]
           target_freq == real_freq[cal.str_n + 1]
       IN  \E new_offsets \in tune_one_target(target_freq, cal.str_n, guitar, cal.offsets) :
             LET new_freq == Replayed(new_offsets)
                 step == StepOf(real_freq, cal.str_n, cal.offsets, new_offsets)
             IN  IF new_freq = None
                 THEN cal' = [Raise("TypeError") EXCEPT !.gsteps = Append(@, step)]
                 ELSE IF AnyZero(new_freq)
                 THEN cal' = [cal EXCEPT !.gsteps = Append(@, step), !.ret = None,
                                         !.outcome = "return", !.pc = "done"]
                 ELSE cal' = [cal EXCEPT !.gsteps = Append(@, step),
                                         !.ret = Append(@, new_freq),
                                         !.offsets = new_offsets,
                                         !.str_n = NextString(cal.str_n),
                                         !.it = @ + 1]
    /\ UNCHANGED << guitar, built, ctor_args, orig, call, tuner >>

\* generate_artificial_data_reversed, lines 306-314: the fit of real_data[0]
\* and the first string index, len(real_data) - 2 as it is.
GenReversedBegin ==
    /\ cal.pc = "gen" /\ cal.gen = "generate_artificial_data_reversed"
    /\ IF Len(cal.real_data) = 0
       THEN cal' = Raise("IndexError")
       ELSE LET starting_freq == cal.real_data[1]
            IN  \E offsets \in tune_all_targets(starting_freq, guitar) :
                  LET freq0 == Replayed(offsets)
                  IN  IF freq0 = None
                      THEN cal' = [cal EXCEPT !.fitted = starting_freq, !.ret = None,
                                              !.outcome = "return", !.pc = "done"]
                      ELSE cal' = [cal EXCEPT !.fitted = starting_freq, !.offsets = offsets,
                                              !.start = offsets,
                                              !.str_n = Len(cal.real_data) - 2, !.it = 0,
                                              !.ret = << freq0 >>, !.pc = "gen_loop"]
    /\ UNCHANGED << guitar, built, ctor_args, orig, call, tuner >>

\* generate_artificial_data_reversed, lines 315-328: one pass of the loop over
\* real_data[:0:-1].
GenReversedStep ==
    /\ cal.pc = "gen_loop" /\ cal.gen = "generate_artificial_data_reversed"
    /\ cal.it < Len(Reversed(cal.real_data))
    /\ LET real_freq == Reversed(cal.real_data)[cal.it + 1]
       IN  IF ~IndexOk(cal.str_n)
           THEN cal' = [Raise("IndexError") EXCEPT
                          !.gsteps = Append(@, [ real_freq |-> real_freq, str_n |-> cal.str_n,
                                                 target_freq |-> Unbound,
                                                 initial_offset |-> cal.offsets,
                                                 new_offsets |-> Unbound ])]
           ELSE LET target_freq == Item(real_freq, cal.str_n)
                    str_n == cal.str_n % 6
                IN  \E new_offsets \in tune_one_target(target_freq, str_n, guitar, cal.offsets) :
                      LET new_freq == Replayed(new_offsets)
                          step == [ StepOf(real_freq, str_n, cal.offsets, new_offsets)
                                      EXCEPT !.str_n = cal.str_n ]
                      IN  IF new_freq = None
                          THEN cal' = [cal EXCEPT !.gsteps = Append(@, step), !.ret = None,
                                                  !.outcome = "return", !.pc = "done"]
                          ELSE cal' = [cal EXCEPT !.gsteps = Append(@, step),
                                                  !.ret = Append(@, new_freq),
                                                  !.offsets = new_offsets,
                                                  !.str_n = PrevString(cal.str_n),
                                                  !.it = @ + 1]
    /\ UNCHANGED << guitar, built, ctor_args, orig, call, tuner >>

\* Lines 230 and 330: return ret.
GenReturn ==
    /\ cal.pc = "gen_loop"
    /\ cal.it = Len(cal.real_data) - 1
    /\ cal' = [cal EXCEPT !.outcome = "return", !.pc = "done"]
    /\ UNCHANGED << guitar, built, ctor_args, orig, call, tuner >>

NextGen ==
    \/ \E name \in GeneratorNames, parameters \in GeneratorVectors, real_data \in GeneratorSampleSets :
         GenStart(name, parameters, real_data)
    \/ GenForwardBegin
    \/ GenForwardStep
    \/ GenReversedBegin
    \/ GenReversedStep
    \/ GenReturn
    \/ CalDone

SpecGen == Init /\ [][NextGen]_vars


(***************************************************************************)
(* Claims checked on SpecGen.                                              *)
(***************************************************************************)

\* generate_artificial_data replays as cost1 does: it fits sample 0, and its
\* k-th step is that of sample k with string index (k-1) mod 6.
GeneratorLikeCost1 ==
    cal.gen = "generate_artificial_data" =>
        /\ cal.fitted # <<>> => cal.fitted = cal.real_data[1]
        /\ \A k \in 1..Len(cal.gsteps) :
             /\ cal.gsteps[k].real_freq = cal.real_data[k + 1]
             /\ cal.gsteps[k].str_n = (k - 1) % 6

\* generate_artificial_data_reversed replays as cost2 does: it fits the last
\* sample, and its k-th step is that of sample n-1-k with string index
\* (n-1-k) mod 6.
GeneratorLikeCost2 ==
    cal.gen = "generate_artificial_data_reversed" =>
        LET n == Len(cal.real_data)
        IN  /\ cal.fitted # <<>> => cal.fitted = cal.real_data[n]
            /\ \A k \in 1..Len(cal.gsteps) :
                 /\ cal.gsteps[k].real_freq = cal.real_data[n - k]
                 /\ cal.gsteps[k].str_n = (n - 1 - k) % 6

\* Every string index a generator step uses is one of 0..5.
GeneratorIndexInRange == \A k \in 1..Len(cal.gsteps) : cal.gsteps[k].str_n \in 0..5

\* On n >= 1 samples a generator ends by returning, either one frequency
\* vector per sample or the invalid marker; it does not raise.
GeneratorReturns ==
    (cal.gen # "" /\ cal.pc = "done" /\ Len(cal.real_data) >= 1) =>
        /\ cal.outcome = "return"
        /\ cal.ret = None \/ Len(cal.ret) = Len(cal.real_data)

\* C12: the generators follow the replay of the cost functions on every
\* sequence of n >= 1 samples: generate_artificial_data has the starting
\* sample, visiting order and string indices of cost1,
\* generate_artificial_data_reversed those of cost2, every string index is in
\* 0..5, and each returns one frequency vector per sample or the invalid
\* marker, never an error, when a step's frequency vector is invalid.
C12_GeneratorsReplayLikeCosts ==
    /\ GeneratorLikeCost1
    /\ GeneratorLikeCost2
    /\ GeneratorIndexInRange
    /\ GeneratorReturns

====
